---------------------------- MODULE Spec2Model ----------------------------
(***************************************************************************)
(* A model of analysis/generate_plot.py: the WORKBank pipeline             *)
(*   load -> aggregate -> merge, score and sort -> figure -> save -> print, *)
(* followed by the viewer activating the dropdown buttons of the written   *)
(* HTML document.                                                          *)
(*                                                                         *)
(* Strings (task texts, occupation titles, labels) are sequences of        *)
(* Unicode code points, so that len(), slicing, concatenation and Python's *)
(* code-point ordering are what the code computes.  Ratings are integers;  *)
(* a mean or a product of means is an exact fraction [num, den] in lowest  *)
(* terms (the code holds float64 values; the model abstracts the rounding  *)
(* of the division and of the product).                                    *)
(***************************************************************************)
EXTENDS Integers, Sequences, FiniteSets, TLC

VARIABLES
    pc,                 \* the statement group the script is about to run
    hub,                \* the two CSV files of the remote dataset repository
    worker_desire_df,   \* line 10
    expert_ratings_df,  \* line 11
    worker_agg,         \* lines 14-17
    expert_agg,         \* lines 20-22
    merged_df,          \* lines 25-29
    occupations,        \* line 41
    fig,                \* the figure: data (traces) and layout (updatemenus, title)
    html,               \* public/index.html on disk
    stdout,             \* the lines printed
    raised,             \* the exception that ended the run, if any
    page                \* the figure as the browser shows it after the buttons activated

vars == <<pc, hub, worker_desire_df, expert_ratings_df, worker_agg, expert_agg,
          merged_df, occupations, fig, html, stdout, raised, page>>

-----------------------------------------------------------------------------
(* Bounds of the model *)

MaxWorkerRows == 2
MaxExpertRows == 2
MaxTasks == 18
MaxShift == 1
MaxTail == 3

(* Program constants *)

TopN == 15
LabelMax == 40

-----------------------------------------------------------------------------
(* Strings *)

Min(S) == CHOOSE x \in S : \A y \in S : x <= y

\* Python's str "<": code point order, a proper prefix is smaller
StrLess(s, t) ==
    LET m == IF Len(s) < Len(t) THEN Len(s) ELSE Len(t)
        d == {k \in 1..m : s[k] # t[k]}
    IN  IF d = {} THEN Len(s) < Len(t) ELSE s[Min(d)] < t[Min(d)]

Ellipsis == <<46, 46, 46>>

Repeat(c, n) == [i \in 1..n |-> c]

Writer == <<87, 114, 105, 116, 101, 114>>
Editor == <<69, 100, 105, 116, 111, 114>>
Title40 == Repeat(97, 40)
Title41x == Title40 \o <<120>>
Title41y == Title40 \o <<121>>
Title55 == Repeat(98, 55)

DraftEmail == <<68, 114, 97, 102, 116>>
draftEmail == <<100, 114, 97, 102, 116>>

\* "t01", "t02", ...
TaskName(i) == <<116, 48 + (i \div 10), 48 + (i % 10)>>

-----------------------------------------------------------------------------
(* Fractions *)

RECURSIVE Gcd(_, _)
Gcd(a, b) == IF b = 0 THEN a ELSE Gcd(b, a % b)

Frac(n, d) == LET g == Gcd(n, d) IN [num |-> n \div g, den |-> d \div g]

FracMul(p, q) == Frac(p.num * q.num, p.den * q.den)

FracLess(p, q) == p.num * q.den < q.num * p.den

RECURSIVE SumSeq(_)
SumSeq(s) == IF s = <<>> THEN 0 ELSE Head(s) + SumSeq(Tail(s))

\* Series.mean() of a non-empty column of numbers
Mean(s) == Frac(SumSeq(s), Len(s))

\* Series.round(2): the value in hundredths, half to even
Round2(p) ==
    LET n == 100 * p.num
        q == n \div p.den
        r == n % p.den
    IN  IF 2 * r < p.den THEN q
        ELSE IF 2 * r > p.den THEN q + 1
        ELSE IF q % 2 = 0 THEN q ELSE q + 1

-----------------------------------------------------------------------------
(* Lists and tables *)

Range(s) == {s[i] : i \in 1..Len(s)}

Column(rows, c) == [i \in 1..Len(rows) |-> rows[i][c]]

\* list.head(n) / DataFrame.head(n)
HeadN(rows, n) == IF Len(rows) <= n THEN rows ELSE SubSeq(rows, 1, n)

\* df[df[c] == v]: the rows whose column c equals v, in the order of df
Where(rows, c, v) == SelectSeq(rows, LAMBDA r : r[c] = v)

\* sorted(): ascending by Python's str order (the elements given are distinct)
RECURSIVE SortedStr(_)
SortedStr(S) ==
    IF S = {} THEN <<>>
    ELSE LET m == CHOOSE x \in S : \A y \in S \ {x} : StrLess(x, y)
         IN  <<m>> \o SortedStr(S \ {m})

-----------------------------------------------------------------------------
(* Column names *)

TASK == "Task"
DESIRE == "Automation Desire Rating"
CAPACITY == "Automation Capacity Rating"
OCCUPATION == "Occupation (O*NET-SOC Title)"
PRIORITY == "Priority Score"

WorkerColumns == <<TASK, DESIRE, OCCUPATION>>
ExpertColumns == <<TASK, CAPACITY>>

WorkerRow(t, r, o) == (TASK :> t) @@ (DESIRE :> r) @@ (OCCUPATION :> o)
ExpertRow(t, r) == (TASK :> t) @@ (CAPACITY :> r)

\* A DataFrame: its column labels and its rows in index order
Frame(cols, rows) == [columns |-> cols, rows |-> rows]

NoFrame == Frame(<<>>, <<>>)

HasColumns(df, cols) == cols \subseteq Range(df.columns)

-----------------------------------------------------------------------------
(* Aggregator: lines 13-22 *)

\* groupby("Task"): the distinct keys, sorted (sort=True is the default)
GroupKeys(df) == SortedStr(Range(Column(df.rows, TASK)))

\* Were the group's last row taken instead ("last")
Last(col) == col[Len(col)]

\* "first": the value of the group's first row
First(col) == col[1]

\* worker_desire_df.groupby("Task").agg({DESIRE: "mean", OCCUPATION: "first"}).reset_index()
AggWorker(df) ==
    LET keys == GroupKeys(df)
    IN  Frame(<<TASK, DESIRE, OCCUPATION>>,
              [i \in 1..Len(keys) |->
                  LET g == Where(df.rows, TASK, keys[i])
                  IN  (TASK :> keys[i])
                      @@ (DESIRE :> Mean(Column(g, DESIRE)))
                      @@ (OCCUPATION :> First(Column(g, OCCUPATION)))])

\* expert_ratings_df.groupby("Task").agg({CAPACITY: "mean"}).reset_index()
AggExpert(df) ==
    LET keys == GroupKeys(df)
    IN  Frame(<<TASK, CAPACITY>>,
              [i \in 1..Len(keys) |->
                  LET g == Where(df.rows, TASK, keys[i])
                  IN  (TASK :> keys[i]) @@ (CAPACITY :> Mean(Column(g, CAPACITY)))])

-----------------------------------------------------------------------------
(* Joiner / scorer: lines 24-29 *)

Lower(s) == [i \in 1..Len(s) |-> IF s[i] \in 65..90 THEN s[i] + 32 ELSE s[i]]

\* Were the keys compared with their case folded
JoinRowFolded(l, right) ==
    LET m == SelectSeq(right, LAMBDA r : Lower(r[TASK]) = Lower(l[TASK]))
    IN  [j \in 1..Len(m) |-> l @@ m[j]]

\* The rows of right that a left row joins with, each combined with it
JoinRow(l, right) ==
    LET m == SelectSeq(right, LAMBDA r : r[TASK] = l[TASK])
    IN  [j \in 1..Len(m) |-> l @@ m[j]]

RECURSIVE JoinRows(_, _)
JoinRows(left, right) ==
    IF left = <<>> THEN <<>>
    ELSE JoinRow(Head(left), right) \o JoinRows(Tail(left), right)

\* pd.merge(left, right, on="Task"): how="inner", in the order of the left keys
Merge(left, right) ==
    Frame(left.columns \o SelectSeq(right.columns, LAMBDA c : c # TASK),
          JoinRows(left.rows, right.rows))

\* Were the two means added instead of multiplied
ScoreSum(df) ==
    Frame(df.columns \o <<PRIORITY>>,
          [i \in 1..Len(df.rows) |->
              LET d == df.rows[i][DESIRE]
                  c == df.rows[i][CAPACITY]
              IN  df.rows[i] @@ (PRIORITY :> Frac(d.num * c.den + c.num * d.den, d.den * c.den))])

\* merged_df['Priority Score'] = merged_df[DESIRE] * merged_df[CAPACITY]
Score(df) ==
    Frame(df.columns \o <<PRIORITY>>,
          [i \in 1..Len(df.rows) |->
              df.rows[i] @@ (PRIORITY :> FracMul(df.rows[i][DESIRE], df.rows[i][CAPACITY]))])

\* The index orders a descending sort of rows by column c may produce: every
\* order in which no row precedes a row of larger value.  sort_values is called
\* with its default kind="quicksort", which is not a stable sort, so rows of
\* equal value may come out in any order.
RECURSIVE DescOrders(_, _, _)
DescOrders(rows, c, I) ==
    IF I = {} THEN {<<>>}
    ELSE UNION {{<<i>> \o s : s \in DescOrders(rows, c, I \ {i})} :
                i \in {k \in I : \A j \in I : ~FracLess(rows[k][c], rows[j][c])}}

\* Were ascending=False left out
SortValuesAsc(df, c) ==
    {Frame(df.columns, [k \in 1..Len(o) |-> df.rows[o[Len(o) + 1 - k]]]) :
        o \in DescOrders(df.rows, c, 1..Len(df.rows))}

\* df.sort_values(c, ascending=False): the frames it may return
SortValuesDesc(df, c) ==
    {Frame(df.columns, [k \in 1..Len(o) |-> df.rows[o[k]]]) :
        o \in DescOrders(df.rows, c, 1..Len(df.rows))}

-----------------------------------------------------------------------------
(* Renderer: lines 31-156 *)

\* len(px.colors.qualitative.Alphabet)
NColors == 26

\* "All Occupations"
AllLabel == <<65, 108, 108, 32, 79, 99, 99, 117, 112, 97, 116, 105, 111, 110, 115>>

\* "WORKBank: All Occupations (Sorted by Priority)"
AllTitle == <<87, 79, 82, 75, 66, 97, 110, 107, 58, 32, 65, 108, 108, 32, 79, 99, 99, 117, 112, 97, 116, 105, 111, 110, 115, 32, 40, 83, 111, 114, 116, 101, 100, 32, 98, 121, 32, 80, 114, 105, 111, 114, 105, 116, 121, 41>>

\* "WORKBank: "
TitlePrefix == <<87, 79, 82, 75, 66, 97, 110, 107, 58, 32>>

\* "WORKBank: Automation Landscape"
FigureTitle == <<87, 79, 82, 75, 66, 97, 110, 107, 58, 32, 65, 117, 116, 111, 109, 97, 116, 105, 111, 110, 32, 76, 97, 110, 100, 115, 99, 97, 112, 101>>

\* sorted(merged_df[OCCUPATION].unique())
Occupations(df) == SortedStr(Range(Column(df.rows, OCCUPATION)))

\* Were the trace cut to the table's 15 rows
ScatterTraceTop(df, occs, i) ==
    LET occ == occs[i]
        occ_data == HeadN(Where(df.rows, OCCUPATION, occ), TopN)
    IN  [type |-> "scatter",
         name |-> occ,
         x |-> Column(occ_data, CAPACITY),
         y |-> Column(occ_data, DESIRE),
         text |-> Column(occ_data, TASK),
         customdata |-> [k \in 1..Len(occ_data) |-> <<occ_data[k][PRIORITY]>>],
         color |-> (i - 1) % NColors,
         legendgroup |-> occ]

\* The go.Scatter trace of the i-th occupation: lines 46-58
ScatterTrace(df, occs, i) ==
    LET occ == occs[i]
        occ_data == Where(df.rows, OCCUPATION, occ)
    IN  [type |-> "scatter",
         name |-> occ,
         x |-> Column(occ_data, CAPACITY),
         y |-> Column(occ_data, DESIRE),
         text |-> Column(occ_data, TASK),
         customdata |-> [k \in 1..Len(occ_data) |-> <<occ_data[k][PRIORITY]>>],
         color |-> (i - 1) % NColors,
         legendgroup |-> occ]

\* The five columns of table cells of some rows: lines 73-76 and 114-120
CellValues(rows) ==
    <<Column(rows, TASK),
      Column(rows, OCCUPATION),
      [k \in 1..Len(rows) |-> Round2(rows[k][DESIRE])],
      [k \in 1..Len(rows) |-> Round2(rows[k][CAPACITY])],
      [k \in 1..Len(rows) |-> Round2(rows[k][PRIORITY])]>>

\* top_tasks = merged_df.head(15) and the go.Table trace: lines 63-81
TableTrace(df) ==
    LET top_tasks == HeadN(df.rows, TopN)
    IN  [type |-> "table", cells |-> [values |-> CellValues(top_tasks)]]

\* fig.data after lines 45-83: one scatter trace per occupation, then the table
Traces(df, occs) ==
    [i \in 1..Len(occs) |-> ScatterTrace(df, occs, i)] \o <<TableTrace(df)>>

\* The "All Occupations" button: lines 89-96
AllButton(occs) ==
    [method |-> "update",
     label |-> AllLabel,
     args |-> << ("visible" :> ([i \in 1..Len(occs) |-> TRUE] \o <<TRUE>>)),
                 ("title" :> AllTitle) >>]

\* Were the test len(occ) >= 40
ButtonLabelInclusive(occ) ==
    IF Len(occ) >= LabelMax THEN SubSeq(occ, 1, LabelMax) \o Ellipsis ELSE occ

\* occ[:40] + "..." if len(occ) > 40 else occ
ButtonLabel(occ) ==
    IF Len(occ) > LabelMax THEN SubSeq(occ, 1, LabelMax) \o Ellipsis ELSE occ

\* Were the table's element of the visibility list False
OccButtonTableHidden(df, occs, occ) ==
    LET visible == [i \in 1..Len(occs) |-> occs[i] = occ] \o <<FALSE>>
        occ_top == HeadN(Where(df.rows, OCCUPATION, occ), TopN)
    IN  [method |-> "update",
         label |-> IF Len(occ) > LabelMax THEN SubSeq(occ, 1, LabelMax) \o Ellipsis ELSE occ,
         args |-> << ("visible" :> visible),
                     ("title" :> (TitlePrefix \o occ))
                        @@ ("cells.values" :> CellValues(occ_top)) >>]

\* The button of one occupation: lines 99-123
OccButton(df, occs, occ) ==
    LET visible == [i \in 1..Len(occs) |-> occs[i] = occ] \o <<TRUE>>
        occ_top == HeadN(Where(df.rows, OCCUPATION, occ), TopN)
    IN  [method |-> "update",
         label |-> ButtonLabel(occ),
         args |-> << ("visible" :> visible),
                     ("title" :> (TitlePrefix \o occ))
                        @@ ("cells.values" :> CellValues(occ_top)) >>]

\* buttons after lines 86-123
Buttons(df, occs) ==
    <<AllButton(occs)>> \o [i \in 1..Len(occs) |-> OccButton(df, occs, occs[i])]

\* The figure before any trace is added: line 32
EmptyFigure == [data |-> <<>>, layout |-> ("title" :> <<>>)]

\* fig.update_layout(updatemenus=[dict(buttons=buttons, ...)], title=...): lines 126-156
UpdateLayout(f, buttons) ==
    [f EXCEPT !.layout = ("updatemenus" :> <<[buttons |-> buttons, showactive |-> TRUE]>>)
                         @@ ("title" :> FigureTitle)]

-----------------------------------------------------------------------------
(* The viewer's page: plotly.js showing the written figure *)

Closed == [open |-> FALSE]

\* The page as first drawn: every trace visible, the first button active
Render(doc) ==
    [open |-> TRUE,
     visible |-> [i \in 1..Len(doc.fig.data) |-> TRUE],
     cells |-> doc.fig.data[Len(doc.fig.data)].cells.values,
     layout |-> ("title" :> doc.fig.layout["title"]),
     buttons |-> doc.fig.layout["updatemenus"][1].buttons,
     active |-> 0]

\* A button of method "update" with args [data_update, layout_update]:
\* Plotly.update restyles the traces with the first (its "visible" list gives
\* trace i its i-th element) and relayouts with the second (each key is set
\* in the layout).
PlotlyUpdate(pg, data_update, layout_update) ==
    [pg EXCEPT !.visible = IF "visible" \in DOMAIN data_update
                           THEN data_update["visible"] ELSE @,
               !.layout = layout_update @@ @]

-----------------------------------------------------------------------------
(* The remote files the run may find *)

FreeTasks == {DraftEmail, draftEmail}
FreeOccupations == {Writer, Editor}
WorkerRatings == {4, 5}
ExpertRatings == {3, 4}

SeqsUpTo(S, n) == UNION {[1..k -> S] : k \in 0..n}

FreeWorkerRows ==
    {WorkerRow(t, r, o) : t \in FreeTasks, r \in WorkerRatings, o \in FreeOccupations}

FreeExpertRows == {ExpertRow(t, r) : t \in FreeTasks, r \in ExpertRatings}

\* Every pair of small files
FreeHubs ==
    {[worker |-> Frame(WorkerColumns, w), expert |-> Frame(ExpertColumns, e)] :
        w \in SeqsUpTo(FreeWorkerRows, MaxWorkerRows),
        e \in SeqsUpTo(FreeExpertRows, MaxExpertRows)}

TailTitles == <<Title41x, Title41y, Title40>>

\* The title of task i of n, the last q of which are of other occupations
WideOccupation(i, n, q) ==
    IF i > n - q THEN TailTitles[((n - i) % 3) + 1] ELSE Title55

\* Wide files: n tasks rated by two workers and one expert each, a task "t00"
\* only the workers rated and a task only the experts rated.  The second
\* worker's rows carry another occupation title than the first's; the
\* experts' ratings run from 1 to 5 + s.
WideHub(n, s, q) ==
    [worker |->
        Frame(WorkerColumns,
              [k \in 1..(n + 1) |->
                  LET i == n + 1 - k
                  IN  WorkerRow(TaskName(i), 1 + (i % 5), WideOccupation(i, n, q))]
              \o [i \in 1..n |-> WorkerRow(TaskName(i), 1 + ((i \div 5) % 5), Writer)]),
     expert |->
        Frame(ExpertColumns,
              [i \in 1..(n + 1) |-> ExpertRow(TaskName(i), 1 + ((2 * i) % (5 + s)))])]

WideHubs ==
    {WideHub(n, s, q) : n \in TopN..MaxTasks, s \in 0..MaxShift, q \in 1..MaxTail}

\* The frame without one of its columns
DropColumn(df, c) ==
    Frame(SelectSeq(df.columns, LAMBDA x : x # c),
          [i \in 1..Len(df.rows) |-> [x \in DOMAIN df.rows[i] \ {c} |-> df.rows[i][x]]])

\* Wide files one of which lacks an expected column
FaultyHubs ==
    {[h EXCEPT !.worker = DropColumn(@, c)] : h \in WideHubs, c \in Range(WorkerColumns)}
    \cup {[h EXCEPT !.expert = DropColumn(@, c)] : h \in WideHubs, c \in Range(ExpertColumns)}

Hubs == FreeHubs \cup WideHubs \cup FaultyHubs

-----------------------------------------------------------------------------
(* The run *)

Start(hubs, files) ==
    /\ pc = "load"
    /\ hub \in hubs
    /\ worker_desire_df = NoFrame
    /\ expert_ratings_df = NoFrame
    /\ worker_agg = NoFrame
    /\ expert_agg = NoFrame
    /\ merged_df = NoFrame
    /\ occupations = <<>>
    /\ fig = EmptyFigure
    /\ html \in files
    /\ stdout = <<>>
    /\ raised = "none"
    /\ page = Closed

\* A first run: no public/index.html yet
Init == Start(Hubs, {"absent"})

\* A first run, or a run over the file of an earlier one
InitIO == Start(WideHubs \cup FaultyHubs, {"absent", "old"})

Abort(exc) ==
    /\ pc' = "aborted"
    /\ raised' = exc

\* Lines 10-11: both files arrive
Load ==
    /\ pc = "load"
    /\ worker_desire_df' = hub.worker
    /\ expert_ratings_df' = hub.expert
    /\ pc' = "aggregate"
    /\ UNCHANGED <<hub, worker_agg, expert_agg, merged_df, occupations, fig, html,
                   stdout, raised, page>>

\* Were the failure of load_dataset caught and the run carried on with empty tables
LoadFailsCaught ==
    /\ pc = "load"
    /\ worker_desire_df' = Frame(WorkerColumns, <<>>)
    /\ expert_ratings_df' = Frame(ExpertColumns, <<>>)
    /\ raised' = "DataUnavailable"
    /\ pc' = "aggregate"
    /\ UNCHANGED <<hub, worker_agg, expert_agg, merged_df, occupations, fig, html,
                   stdout, page>>

\* Lines 10-11: load_dataset raises (the repository or the file is unavailable)
LoadFails ==
    /\ pc = "load"
    /\ Abort("DataUnavailable")
    /\ UNCHANGED <<hub, worker_desire_df, expert_ratings_df, worker_agg, expert_agg,
                   merged_df, occupations, fig, html, stdout, page>>

\* Lines 14-22
Aggregate ==
    /\ pc = "aggregate"
    /\ HasColumns(worker_desire_df, {TASK, DESIRE, OCCUPATION})
    /\ HasColumns(expert_ratings_df, {TASK, CAPACITY})
    /\ worker_agg' = AggWorker(worker_desire_df)
    /\ expert_agg' = AggExpert(expert_ratings_df)
    /\ pc' = "merge"
    /\ UNCHANGED <<hub, worker_desire_df, expert_ratings_df, merged_df, occupations,
                   fig, html, stdout, raised, page>>

\* Lines 14-22: groupby or agg raises KeyError for an absent column
AggregateFails ==
    /\ pc = "aggregate"
    /\ \/ /\ ~HasColumns(worker_desire_df, {TASK, DESIRE, OCCUPATION})
          /\ UNCHANGED worker_agg
       \/ /\ HasColumns(worker_desire_df, {TASK, DESIRE, OCCUPATION})
          /\ ~HasColumns(expert_ratings_df, {TASK, CAPACITY})
          /\ worker_agg' = AggWorker(worker_desire_df)
    /\ Abort("KeyError")
    /\ UNCHANGED <<hub, worker_desire_df, expert_ratings_df, expert_agg, merged_df,
                   occupations, fig, html, stdout, page>>

\* Lines 25-29: merge, add the priority column, sort by it
JoinAndScore ==
    /\ pc = "merge"
    /\ merged_df' \in SortValuesDesc(Score(Merge(worker_agg, expert_agg)), PRIORITY)
    /\ pc' = "figure"
    /\ UNCHANGED <<hub, worker_desire_df, expert_ratings_df, worker_agg, expert_agg,
                   occupations, fig, html, stdout, raised, page>>

\* Lines 32-160: the traces, the buttons, the layout
BuildFigure ==
    /\ pc = "figure"
    /\ occupations' = Occupations(merged_df)
    /\ fig' = UpdateLayout([EmptyFigure EXCEPT !.data = Traces(merged_df, occupations')],
                           Buttons(merged_df, occupations'))
    /\ pc' = "save"
    /\ UNCHANGED <<hub, worker_desire_df, expert_ratings_df, worker_agg, expert_agg,
                   merged_df, html, stdout, raised, page>>

\* fig.write_html(output_path, include_plotlyjs='cdn'): the document written
Document(f) == [plotlyjs |-> "cdn", fig |-> f]

\* Lines 163-165
Save ==
    /\ pc = "save"
    /\ html' = Document(fig)
    /\ pc' = "print"
    /\ UNCHANGED <<hub, worker_desire_df, expert_ratings_df, worker_agg, expert_agg,
                   merged_df, occupations, fig, stdout, raised, page>>

\* Line 163: os.makedirs raises; nothing is written
MakedirsFails ==
    /\ pc = "save"
    /\ Abort("OSError")
    /\ UNCHANGED <<hub, worker_desire_df, expert_ratings_df, worker_agg, expert_agg,
                   merged_df, occupations, fig, html, stdout, page>>

\* Line 165: write_html raises, opening the file (it is left as it was) or
\* writing to it (it is left truncated)
WriteFails ==
    /\ pc = "save"
    /\ html' \in {html, "partial"}
    /\ Abort("OSError")
    /\ UNCHANGED <<hub, worker_desire_df, expert_ratings_df, worker_agg, expert_agg,
                   merged_df, occupations, fig, stdout, page>>

\* Line 167
PrintSaved ==
    /\ pc = "print"
    /\ stdout' = Append(stdout, "Advanced interactive plot saved to: public/index.html")
    /\ pc' = "done"
    /\ UNCHANGED <<hub, worker_desire_df, expert_ratings_df, worker_agg, expert_agg,
                   merged_df, occupations, fig, html, raised, page>>

\* After the run, the viewer opens public/index.html
Open ==
    /\ pc = "done"
    /\ ~page.open
    /\ page' = Render(html)
    /\ UNCHANGED <<pc, hub, worker_desire_df, expert_ratings_df, worker_agg, expert_agg,
                   merged_df, occupations, fig, html, stdout, raised>>

\* The positions of the dropdown's controls on the open page
Controls == IF page.open THEN 0..(Len(page.buttons) - 1) ELSE {}

\* The viewer activates the b-th control of the dropdown (0 is "All Occupations")
Activate(b) ==
    /\ page.open
    /\ LET button == page.buttons[b + 1]
       IN  page' = [PlotlyUpdate(page, button.args[1], button.args[2]) EXCEPT !.active = b]
    /\ UNCHANGED <<pc, hub, worker_desire_df, expert_ratings_df, worker_agg, expert_agg,
                   merged_df, occupations, fig, html, stdout, raised>>

Next ==
    \/ Load
    \/ LoadFails
    \/ Aggregate
    \/ AggregateFails
    \/ JoinAndScore
    \/ BuildFigure
    \/ Save
    \/ MakedirsFails
    \/ WriteFails
    \/ PrintSaved
    \/ Open
    \/ \E b \in Controls : Activate(b)

Spec == Init /\ [][Next]_vars

SpecIO == InitIO /\ [][Next]_vars

-----------------------------------------------------------------------------
(* How far the run has come, read from what it has built *)

WorkerAggregated == worker_agg.columns # <<>>
ExpertAggregated == expert_agg.columns # <<>>
Joined == merged_df.columns # <<>>
Drawn == fig.data # <<>>
Controlled == "updatemenus" \in DOMAIN fig.layout

Tasks(df) == Range(Column(df.rows, TASK))

RowsOf(df, t) == {i \in 1..Len(df.rows) : df.rows[i][TASK] = t}

\* The sum of column c over the rows I of df
Total(df, c, I) ==
    LET upto[k \in 0..Len(df.rows)] ==
            IF k = 0 THEN 0
            ELSE upto[k - 1] + (IF k \in I THEN df.rows[k][c] ELSE 0)
    IN  upto[Len(df.rows)]

\* m is the arithmetic mean of column c over the rows I of df
IsMeanOf(m, df, c, I) == I # {} /\ m.num * Cardinality(I) = Total(df, c, I) * m.den

\* The joined table as it was before line 29 sorted it
JoinedRows == Score(Merge(worker_agg, expert_agg)).rows

-----------------------------------------------------------------------------
(* C2 *)

\* C2: the tasks of the joined table are exactly the tasks present in both
\* aggregates, each with exactly one row; task identity is string equality.
C2_InnerJoin ==
    Joined =>
        LET T == Column(merged_df.rows, TASK)
        IN  /\ Range(T) = Tasks(worker_agg) \cap Tasks(expert_agg)
            /\ \A i, j \in 1..Len(T) : T[i] = T[j] => i = j

\* A join that drops a worker-only task and an expert-only task and keeps two
C2_Witness ==
    /\ Joined
    /\ Tasks(worker_agg) \ Tasks(expert_agg) # {}
    /\ Tasks(expert_agg) \ Tasks(worker_agg) # {}
    /\ Len(merged_df.rows) >= 2

-----------------------------------------------------------------------------
(* C9 *)

\* C9: each aggregate has exactly one row per distinct task of its input; the
\* row's rating is the arithmetic mean of all that task's ratings, and the
\* worker aggregate's occupation title is that of the task's first input row.
C9_Aggregate ==
    /\ WorkerAggregated =>
          /\ \A t \in Tasks(worker_desire_df) :
                Cardinality(RowsOf(worker_agg, t)) = 1
          /\ \A k \in 1..Len(worker_agg.rows) :
                LET r == worker_agg.rows[k]
                    I == RowsOf(worker_desire_df, r[TASK])
                IN  /\ IsMeanOf(r[DESIRE], worker_desire_df, DESIRE, I)
                    /\ r[OCCUPATION] = worker_desire_df.rows[Min(I)][OCCUPATION]
    /\ ExpertAggregated =>
          /\ \A t \in Tasks(expert_ratings_df) :
                Cardinality(RowsOf(expert_agg, t)) = 1
          /\ \A k \in 1..Len(expert_agg.rows) :
                LET r == expert_agg.rows[k]
                    I == RowsOf(expert_ratings_df, r[TASK])
                IN  IsMeanOf(r[CAPACITY], expert_ratings_df, CAPACITY, I)

\* The scenario: desire 4 and 5 give 4.5, capability 3 and 4 give 3.5,
\* priority 15.75; the two workers' rows carry different titles
C9_Witness ==
    /\ Joined
    /\ Column(worker_desire_df.rows, DESIRE) = <<4, 5>>
    /\ Column(expert_ratings_df.rows, CAPACITY) = <<3, 4>>
    /\ worker_desire_df.rows[1][OCCUPATION] # worker_desire_df.rows[2][OCCUPATION]
    /\ Len(merged_df.rows) = 1
    /\ merged_df.rows[1][DESIRE] = [num |-> 9, den |-> 2]
    /\ merged_df.rows[1][CAPACITY] = [num |-> 7, den |-> 2]
    /\ merged_df.rows[1][PRIORITY] = [num |-> 63, den |-> 4]
    /\ merged_df.rows[1][OCCUPATION] = worker_desire_df.rows[1][OCCUPATION]

-----------------------------------------------------------------------------
(* C5 *)

InScale(df, c) == \A i \in 1..Len(df.rows) : df.rows[i][c] \in 1..5

\* lo <= p <= hi
Within(p, lo, hi) == lo * p.den <= p.num /\ p.num <= hi * p.den

\* C5: every row's priority is the product of its task's mean desire and mean
\* capability; with every input rating in [1,5] both means lie in [1,5] and
\* the priority in [1,25].
C5_Priority ==
    Joined =>
        \A k \in 1..Len(merged_df.rows) :
            LET r == merged_df.rows[k]
                w == worker_agg.rows[Min(RowsOf(worker_agg, r[TASK]))]
                e == expert_agg.rows[Min(RowsOf(expert_agg, r[TASK]))]
            IN  /\ r[DESIRE] = w[DESIRE]
                /\ r[CAPACITY] = e[CAPACITY]
                /\ r[PRIORITY].num * w[DESIRE].den * e[CAPACITY].den
                      = w[DESIRE].num * e[CAPACITY].num * r[PRIORITY].den
                /\ (InScale(worker_desire_df, DESIRE) /\ InScale(expert_ratings_df, CAPACITY))
                      => /\ Within(r[DESIRE], 1, 5)
                         /\ Within(r[CAPACITY], 1, 5)
                         /\ Within(r[PRIORITY], 1, 25)

\* In-scale ratings, several rows, a mean that is no whole number
C5_Witness ==
    /\ Joined
    /\ InScale(worker_desire_df, DESIRE)
    /\ InScale(expert_ratings_df, CAPACITY)
    /\ Len(merged_df.rows) >= 2
    /\ \E k \in 1..Len(merged_df.rows) : merged_df.rows[k][DESIRE].den = 2

-----------------------------------------------------------------------------
(* C4 and C3 *)

Position(rows, t) == CHOOSE i \in 1..Len(rows) : rows[i][TASK] = t

\* C4: the final table is a permutation of the joined rows, and every row's
\* priority is at least that of the row after it.
C4_SortedDescending ==
    Joined =>
        LET before == JoinedRows
            after == merged_df.rows
        IN  /\ Len(after) = Len(before)
            /\ \A i \in 1..Len(before) :
                  Cardinality({k \in 1..Len(after) : after[k] = before[i]})
                      = Cardinality({k \in 1..Len(before) : before[k] = before[i]})
            /\ \A i \in 1..(Len(after) - 1) :
                  ~FracLess(after[i][PRIORITY], after[i + 1][PRIORITY])

\* A sorted table of several rows that were not in descending order before
C4_Witness ==
    /\ Joined
    /\ Len(merged_df.rows) >= 3
    /\ LET before == JoinedRows
       IN  /\ merged_df.rows # before
           /\ \E i \in 1..(Len(before) - 1) :
                  FracLess(before[i][PRIORITY], before[i + 1][PRIORITY])

\* C3: rows of equal priority keep, in the final table, the relative order they
\* had in the joined table before the sort.
C3_StableSort ==
    Joined =>
        LET before == JoinedRows
            after == merged_df.rows
        IN  \A i, j \in 1..Len(after) :
                (i < j /\ after[i][PRIORITY] = after[j][PRIORITY])
                    => Position(before, after[i][TASK]) < Position(before, after[j][TASK])

-----------------------------------------------------------------------------
(* C6 *)

ScatterIndices == {i \in 1..Len(fig.data) : fig.data[i].type = "scatter"}

\* The points (trace, position) that show row r
PointsOf(r) ==
    {<<i, k>> \in UNION {{<<i, k>> : k \in 1..Len(fig.data[i].text)} : i \in ScatterIndices} :
        /\ fig.data[i].text[k] = r[TASK]
        /\ fig.data[i].x[k] = r[CAPACITY]
        /\ fig.data[i].y[k] = r[DESIRE]
        /\ fig.data[i].customdata[k] = <<r[PRIORITY]>>}

\* C6: every row of the final table is a point of exactly one scatter trace,
\* the trace of its own occupation, and the traces hold no other point.
C6_TracesPartition ==
    Drawn =>
        /\ \A k \in 1..Len(merged_df.rows) :
              LET r == merged_df.rows[k]
              IN  /\ Cardinality(PointsOf(r)) = 1
                  /\ \A pt \in PointsOf(r) : fig.data[pt[1]].name = r[OCCUPATION]
        /\ \A i \in ScatterIndices :
              \A k \in 1..Len(fig.data[i].text) :
                  \E n \in 1..Len(merged_df.rows) : <<i, k>> \in PointsOf(merged_df.rows[n])
        /\ \A i, j \in ScatterIndices : fig.data[i].name = fig.data[j].name => i = j

\* Several traces, one of them of more than 15 points
C6_Witness ==
    /\ Drawn
    /\ Cardinality(ScatterIndices) >= 3
    /\ \E i \in ScatterIndices : Len(fig.data[i].text) > 15

-----------------------------------------------------------------------------
(* C7 *)

Menu == fig.layout["updatemenus"][1].buttons

\* The visibility list that shows the table and the scatter traces named in S
Shows(v, S) ==
    /\ Len(v) = Len(fig.data)
    /\ \A j \in 1..Len(v) :
          v[j] = (fig.data[j].type = "table" \/ fig.data[j].name \in S)

\* C7: the first control is "All Occupations" and shows every trace; it is
\* followed by exactly one control per distinct occupation, which shows that
\* occupation's scatter trace and hides the others; every visibility list has
\* one element per trace (occupations + 1) in trace order, the table's TRUE.
C7_Controls ==
    Controlled =>
        LET D == Range(Column(merged_df.rows, OCCUPATION))
        IN  /\ Len(fig.data) = Cardinality(D) + 1
            /\ fig.data[Len(fig.data)].type = "table"
            /\ \A j \in 1..(Len(fig.data) - 1) : fig.data[j].type = "scatter"
            /\ Len(Menu) = Cardinality(D) + 1
            /\ Menu[1].label = AllLabel
            /\ Shows(Menu[1].args[1]["visible"], D)
            /\ \A j \in 1..Len(fig.data) : Menu[1].args[1]["visible"][j]
            /\ \A o \in D :
                  Cardinality({i \in 2..Len(Menu) : Shows(Menu[i].args[1]["visible"], {o})}) = 1
            /\ \A i \in 2..Len(Menu) :
                  /\ Menu[i].label # AllLabel
                  /\ \E o \in D : Shows(Menu[i].args[1]["visible"], {o})

\* A menu of "All Occupations" and at least three occupations
C7_Witness ==
    /\ Controlled
    /\ Len(Menu) >= 4

-----------------------------------------------------------------------------
(* C8 *)

\* C8: a title longer than 40 characters is labelled by its first 40
\* characters and "...", any other title by itself; the control's visibility
\* list and table rows are those of the full title.
C8_Labels ==
    Controlled =>
        \A i \in 2..Len(Menu) :
            LET occ == occupations[i - 1]
                rows == SelectSeq(merged_df.rows, LAMBDA r : r[OCCUPATION] = occ)
            IN  /\ Len(occ) > 40 =>
                      /\ Len(Menu[i].label) = 43
                      /\ \A k \in 1..40 : Menu[i].label[k] = occ[k]
                      /\ \A k \in 41..43 : Menu[i].label[k] = 46
                /\ Len(occ) <= 40 => Menu[i].label = occ
                /\ Shows(Menu[i].args[1]["visible"], {occ})
                /\ Menu[i].args[2]["cells.values"]
                      = CellValues(IF Len(rows) > 15 THEN SubSeq(rows, 1, 15) ELSE rows)

\* Two titles of 41 characters that share their first 40 carry the same label
\* and filter to different rows; a title of 40 and a title of 55 are there too
C8_Witness ==
    /\ Controlled
    /\ \E i, j \in 2..Len(Menu) :
          /\ i # j
          /\ Menu[i].label = Menu[j].label
          /\ Menu[i].args[1]["visible"] # Menu[j].args[1]["visible"]
          /\ Menu[i].args[2]["cells.values"] # Menu[j].args[2]["cells.values"]
    /\ \E i \in 2..Len(Menu) : Len(occupations[i - 1]) = 40
    /\ \E i \in 2..Len(Menu) : Len(occupations[i - 1]) = 55 /\ Len(Menu[i].label) = 43

-----------------------------------------------------------------------------
(* C1 *)

\* The rows the selected control stands for
Selected ==
    IF page.active = 0 THEN merged_df.rows
    ELSE SelectSeq(merged_df.rows, LAMBDA r : r[OCCUPATION] = occupations[page.active])

\* C1: after any sequence of activations the table shows the top 15 rows of
\* the filter of the control activated last.
C1_TableFollowsSelection ==
    page.open => page.cells = CellValues(HeadN(Selected, 15))

-----------------------------------------------------------------------------
(* C10 *)

\* C10: a failure ends the run (nothing is enabled any more) with what the
\* later stages would have built still unbuilt; a failure before the render
\* stage leaves public/index.html as it was; the confirmation is printed at
\* most once, only after the file was written and only when nothing failed.
C10_AbortsWithoutRecovery ==
    /\ raised # "none" <=> pc = "aborted"
    /\ pc = "aborted" => ~ENABLED Next
    /\ raised = "DataUnavailable" =>
          /\ worker_desire_df = NoFrame /\ expert_ratings_df = NoFrame
          /\ ~WorkerAggregated
    /\ raised \in {"DataUnavailable", "KeyError"} =>
          /\ ~ExpertAggregated /\ ~Joined /\ ~Drawn /\ ~Controlled
          /\ html \in {"absent", "old"}
    /\ raised # "none" => stdout = <<>> /\ ~page.open
    /\ Len(stdout) <= 1
    /\ stdout # <<>> => pc = "done" /\ html = Document(fig)
    /\ pc = "done" => Len(stdout) = 1

\* A run over an earlier run's file that a missing column ended
C10_Witness ==
    /\ raised = "KeyError"
    /\ html = "old"
    /\ WorkerAggregated

=============================================================================
